---- MODULE Spec2Model ----
(***************************************************************************)
(* Model of server/sync_server.py: the canvas synchronisation server.      *)
(*                                                                         *)
(* The server runs on one asyncio event loop.  A coroutine gives up the    *)
(* loop only where it really suspends.  The subscriber queues are built    *)
(* by asyncio.Queue() with no maxsize, so `await queue.put(..)` never      *)
(* suspends, and so neither does `await broadcast(..)`.  Hence every       *)
(* request handler body is one atomic step, and the task started by        *)
(* asyncio.create_task(broadcast_all(..)) is one atomic step that the loop *)
(* runs later; the loop starts tasks in the order they were created.       *)
(* A subscriber stream suspends at each yield and at queue.get().          *)
(***************************************************************************)
EXTENDS Integers, Sequences, FiniteSets, TLC

\* ---- bounds of the model ------------------------------------------------
MaxSeq == 3          \* cap on the sequence counter
FanSeq == 2          \* cap on the sequence counter while streams are modelled
ResetSeq == 1        \* cap on the sequence counter while reset is modelled
ResetConns == 1      \* streams opened next to reset
MaxEvents == 2       \* items in one push request
MaxUrls == 2         \* urls in one inject request
MaxSyncLen == 2      \* objects in one full-sync request
MaxConn == 2         \* subscriber streams ever opened
MaxTasks == 1        \* broadcast_all tasks pending at once
MaxBacklog == 1      \* reset is taken while no stream holds more envelopes than this
MaxBeats == 1        \* heartbeats per stream

\* ---- input domains ------------------------------------------------------
NoId == ""                         \* event_data.get("id") absent or empty
Urls == {"u1"}
UploadDirs == {{}, {"f1.png"}}     \* possible contents of UPLOAD_DIR
Rands == {0}                       \* values drawn by random.randint(0, 10**6)
PORT == 3001

RECURSIVE SeqsUpTo(_, _)
SeqsUpTo(S, n) ==
    IF n = 0 THEN {<<>>}
    ELSE LET shorter == SeqsUpTo(S, n - 1)
         IN  shorter \cup {Append(s, x) : s \in {t \in shorter : Len(t) = n - 1}, x \in S}

Obj(id, body) == [id |-> id, body |-> body]
CanvasObjects == {Obj("a", "p1"), Obj("a", "p2"), Obj(NoId, "p1")}
FewObjects == {Obj("a", "p1")}
SyncEventItem(objects) == [event_type : {"client:change"}, event_data : objects]
SyncPushRequest == SeqsUpTo(SyncEventItem(CanvasObjects), MaxEvents)
FewPushRequest == SeqsUpTo(SyncEventItem(FewObjects), MaxEvents)
FullSyncRequest == SeqsUpTo(CanvasObjects, MaxSyncLen)
InjectImageRequest == SeqsUpTo(Urls, MaxUrls)
Conns == 1..MaxConn                \* the streams, in the order they are opened
ConnIds == 1..MaxConn              \* values of str(uuid.uuid4())[:8]

VARIABLES
    sequence_id,     \* the global counter
    canvas_data,     \* the global list of canvas objects
    sse_clients,     \* the dict sse_clients in key order: per key, the stream whose
                     \* queue is stored under it
    queue,           \* queue[c]: the asyncio.Queue of stream c
    tasks,           \* broadcast_all tasks created and not yet run, oldest first
    pc,              \* pc[c]: where stream c stands
    cid,             \* cid[c]: the connection_id drawn for stream c, 0 before that
    sent,            \* sent[c]: the frames stream c has yielded
    broken,          \* streams whose queue.put raises
    last,            \* the request handled last and its response
    assigned,        \* history: sequence ids handed out since the last reset
    merged,          \* history: merge_event_to_canvas calls since the last reset
    acked,           \* history: what was acknowledged since the last full-sync or reset
    putFailed,       \* history: streams to which some queue.put raised
    regSeq,          \* history: regSeq[c] = the counter when stream c registered,
                     \*          0 again once the counter is reset
    fullSyncDup      \* history: the canvas was last installed with a repeated id

vars == <<sequence_id, canvas_data, sse_clients, queue, tasks, pc, cid, sent, broken,
          last, assigned, merged, acked, putFailed, regSeq, fullSyncDup>>

\* ---- merge_event_to_canvas ----------------------------------------------
RECURSIVE FindIndex(_, _, _)
FindIndex(canvas, event_id, i) ==
    IF i > Len(canvas) THEN 0
    ELSE IF canvas[i].id = event_id THEN i
    ELSE FindIndex(canvas, event_id, i + 1)

\* Faulty variants of the merge: one that appends whatever it is given, one
\* that leaves an object already present as it is, one without the id check.
MergeAlwaysAppend(canvas, event_data) ==
    IF event_data.id = NoId THEN canvas ELSE Append(canvas, event_data)

MergeKeepOld(canvas, event_data) ==
    IF event_data.id = NoId THEN canvas
    ELSE IF FindIndex(canvas, event_data.id, 1) >= 1 THEN canvas
    ELSE Append(canvas, event_data)

MergeNoIdCheck(canvas, event_data) ==
    LET found_index == FindIndex(canvas, event_data.id, 1)
    IN  IF found_index >= 1
        THEN [canvas EXCEPT ![found_index] = event_data]
        ELSE Append(canvas, event_data)

\* Faulty variant: an object already present is taken out and put last.
MergeMoveToEnd(canvas, event_data) ==
    IF event_data.id = NoId THEN canvas
    ELSE Append(SelectSeq(canvas, LAMBDA item : item.id # event_data.id), event_data)

MergeEventToCanvas(canvas, event_data) ==
    IF event_data.id = NoId THEN canvas
    ELSE LET found_index == FindIndex(canvas, event_data.id, 1)
         IN  IF found_index >= 1
             THEN [canvas EXCEPT ![found_index] = event_data]
             ELSE Append(canvas, event_data)

\* ---- broadcast ------------------------------------------------------------
Message(event) == [type |-> "sync_event", data |-> event]

\* The loop of broadcast over list(sse_clients.items()): a put that raises is
\* caught and logged, and the loop goes on.  The result carries the queues,
\* the streams whose put raised, and whether an exception left the call.
\* Faulty variant: no try/except around the put, the exception leaves the loop.
RECURSIVE BroadcastLoopRaise(_, _, _, _, _)
BroadcastLoopRaise(clients, q, message, i, failed) ==
    IF i > Len(clients)
    THEN [queue |-> q, failed |-> failed, raised |-> FALSE]
    ELSE LET client_id == clients[i]
         IN  IF client_id \in broken
             THEN [queue |-> q, failed |-> failed \cup {client_id}, raised |-> TRUE]
             ELSE BroadcastLoopRaise(clients, [q EXCEPT ![client_id] = Append(@, message)],
                                     message, i + 1, failed)

RECURSIVE BroadcastLoop(_, _, _, _, _)
BroadcastLoop(clients, q, message, i, failed) ==
    IF i > Len(clients)
    THEN [queue |-> q, failed |-> failed, raised |-> FALSE]
    ELSE LET client_id == clients[i]
         IN  IF client_id \in broken
             THEN BroadcastLoop(clients, q, message, i + 1, failed \cup {client_id})
             ELSE BroadcastLoop(clients, [q EXCEPT ![client_id] = Append(@, message)],
                                message, i + 1, failed)

\* Faulty variant: the loop runs over every stream that has been opened and not
\* closed, registered or not.
BroadcastToOpened(q, event) ==
    BroadcastLoop(SelectSeq([c \in Conns |-> c], LAMBDA c : pc[c] \in {"created", "streaming"}),
                  q, Message(event), 1, {})

Broadcast(q, event) == BroadcastLoop(sse_clients, q, Message(event), 1, {})

\* broadcast_all: one broadcast per event, in list order; an exception leaving
\* broadcast would end the task.  st = [queue, failed, raised, done], done
\* being the envelopes passed to broadcast.
RECURSIVE BroadcastAllLoop(_, _, _)
BroadcastAllLoop(events, i, st) ==
    IF i > Len(events) \/ st.raised THEN st
    ELSE LET r == Broadcast(st.queue, events[i])
         IN  BroadcastAllLoop(events, i + 1,
                 [queue |-> r.queue, failed |-> st.failed \cup r.failed,
                  raised |-> r.raised, done |-> Append(st.done, events[i])])

\* Faulty variant: the task walks the list from its end.
BroadcastAllBackwards(events) ==
    BroadcastAllLoop([i \in 1..Len(events) |-> events[Len(events) + 1 - i]], 1,
                     [queue |-> queue, failed |-> {}, raised |-> FALSE, done |-> <<>>])

BroadcastAll(events) ==
    BroadcastAllLoop(events, 1, [queue |-> queue, failed |-> {}, raised |-> FALSE, done |-> <<>>])

\* ---- history helpers ------------------------------------------------------
NoAck == [seq |-> 0, objs |-> <<>>]

AckObject(objs, event_data) ==
    IF event_data.id = NoId THEN objs
    ELSE [i \in DOMAIN objs \cup {event_data.id} |->
              IF i = event_data.id THEN event_data ELSE objs[i]]

RECURSIVE AckAll(_, _, _)
AckAll(objs, envs, i) ==
    IF i > Len(envs) THEN objs
    ELSE AckAll(AckObject(objs, envs[i].event_data), envs, i + 1)

SeqIds(envs) == [i \in 1..Len(envs) |-> envs[i].sequence_id]

UniqueIds(canvas) ==
    \A i, j \in 1..Len(canvas) : i # j => canvas[i].id # canvas[j].id

NoRequest == [op |-> "none", resp |-> [status |-> 0]]

\* ---- initial state --------------------------------------------------------
Init ==
    /\ sequence_id = 0
    /\ canvas_data = <<>>
    /\ sse_clients = <<>>
    /\ queue = [c \in Conns |-> <<>>]
    /\ tasks = <<>>
    /\ pc = [c \in Conns |-> "none"]
    /\ cid = [c \in Conns |-> 0]
    /\ sent = [c \in Conns |-> <<>>]
    /\ broken = {}
    /\ last = NoRequest
    /\ assigned = <<>>
    /\ merged = 0
    /\ acked = NoAck
    /\ putFailed = {}
    /\ regSeq = [c \in Conns |-> 0]
    /\ fullSyncDup = FALSE

\* ---- push_sync_event ------------------------------------------------------
\* The for loop of push_sync_event: per item, increment the counter, merge,
\* append the envelope.  st = [sequence_id, canvas, envs, merges].
\* Faulty variants: the counter is incremented once per request instead of
\* once per item; the merge is left out of the handler.
RECURSIVE PushLoopOneId(_, _, _)
PushLoopOneId(events, i, st) ==
    IF i > Len(events) THEN st
    ELSE LET seq == IF i = 1 THEN st.sequence_id + 1 ELSE st.sequence_id
             event_item == events[i]
         IN  PushLoopOneId(events, i + 1,
                 [sequence_id |-> seq,
                  canvas |-> MergeEventToCanvas(st.canvas, event_item.event_data),
                  envs |-> Append(st.envs, [sequence_id |-> seq,
                                            event_type |-> event_item.event_type,
                                            event_data |-> event_item.event_data]),
                  merges |-> st.merges + 1])

RECURSIVE PushLoopNoMerge(_, _, _)
PushLoopNoMerge(events, i, st) ==
    IF i > Len(events) THEN st
    ELSE LET seq == st.sequence_id + 1
             event_item == events[i]
         IN  PushLoopNoMerge(events, i + 1,
                 [sequence_id |-> seq,
                  canvas |-> st.canvas,
                  envs |-> Append(st.envs, [sequence_id |-> seq,
                                            event_type |-> event_item.event_type,
                                            event_data |-> event_item.event_data]),
                  merges |-> st.merges])

\* Faulty variant: an item without an id is skipped altogether.
RECURSIVE PushLoopSkipsIdless(_, _, _)
PushLoopSkipsIdless(events, i, st) ==
    IF i > Len(events) THEN st
    ELSE IF events[i].event_data.id = NoId THEN PushLoopSkipsIdless(events, i + 1, st)
    ELSE LET seq == st.sequence_id + 1
             event_item == events[i]
         IN  PushLoopSkipsIdless(events, i + 1,
                 [sequence_id |-> seq,
                  canvas |-> MergeEventToCanvas(st.canvas, event_item.event_data),
                  envs |-> Append(st.envs, [sequence_id |-> seq,
                                            event_type |-> event_item.event_type,
                                            event_data |-> event_item.event_data]),
                  merges |-> st.merges + 1])

RECURSIVE PushLoop(_, _, _)
PushLoop(events, i, st) ==
    IF i > Len(events) THEN st
    ELSE LET seq == st.sequence_id + 1
             event_item == events[i]
         IN  PushLoop(events, i + 1,
                 [sequence_id |-> seq,
                  canvas |-> MergeEventToCanvas(st.canvas, event_item.event_data),
                  envs |-> Append(st.envs, [sequence_id |-> seq,
                                            event_type |-> event_item.event_type,
                                            event_data |-> event_item.event_data]),
                  merges |-> st.merges + 1])

\* Faulty variant: the response carries the id of the first item.
PushResponseFirst(st) ==
    [status |-> 200,
     sequence_id |-> IF st.envs = <<>> THEN st.sequence_id ELSE st.envs[1].sequence_id]

PushResponse(st) == [status |-> 200, sequence_id |-> st.sequence_id]

PushSyncEvent(events) ==
    /\ sequence_id + Len(events) <= MaxSeq
    /\ Len(tasks) < MaxTasks
    /\ LET st == PushLoop(events, 1, [sequence_id |-> sequence_id, canvas |-> canvas_data,
                                      envs |-> <<>>, merges |-> 0])
       IN  /\ sequence_id' = st.sequence_id
           /\ canvas_data' = st.canvas
           /\ tasks' = Append(tasks, st.envs)
           /\ last' = [op |-> "push", resp |-> PushResponse(st)]
           /\ assigned' = assigned \o SeqIds(st.envs)
           /\ merged' = merged + st.merges
           /\ acked' = [seq |-> IF st.sequence_id > acked.seq THEN st.sequence_id ELSE acked.seq,
                        objs |-> AckAll(acked.objs, st.envs, 1)]
    /\ UNCHANGED <<cid, sse_clients, queue, pc, sent, broken, putFailed, regSeq,
                   fullSyncDup>>

\* Faulty variant: the task ends without having called broadcast.
RunBroadcastAllDrops ==
    /\ tasks # <<>>
    /\ tasks' = Tail(tasks)
    /\ UNCHANGED <<cid, sequence_id, canvas_data, sse_clients, queue, pc, sent, broken, last,
                   assigned, merged, acked, putFailed, regSeq, fullSyncDup>>

\* The task created by asyncio.create_task(broadcast_all(broadcast_events)).
RunBroadcastAll ==
    /\ tasks # <<>>
    /\ LET r == BroadcastAll(Head(tasks))
       IN  /\ queue' = r.queue
           /\ putFailed' = putFailed \cup r.failed
    /\ tasks' = Tail(tasks)
    /\ UNCHANGED <<cid, sequence_id, canvas_data, sse_clients, pc, sent, broken, last, assigned,
                   merged, acked, regSeq, fullSyncDup>>

\* ---- inject_image --------------------------------------------------------
ImgId(seq, r) == "img_server_" \o ToString(seq) \o "_" \o ToString(r)

UploadUrl(random_file) == "http://localhost:" \o ToString(PORT) \o "/uploads/" \o random_file

ImageData(img_id, url) == [id |-> img_id, body |-> url]

\* The for loop of inject_image: per url, increment the counter, build the
\* object, merge it, broadcast its envelope at once.  An exception leaving
\* broadcast would end the handler.
\* st = [sequence_id, canvas, queue, failed, raised, envs, ids, merges].
RECURSIVE InjectLoop(_, _, _, _)
InjectLoop(urls, rand, i, st) ==
    IF i > Len(urls) \/ st.raised THEN st
    ELSE LET seq == st.sequence_id + 1
             img_id == ImgId(seq, rand[i])
             event_data == ImageData(img_id, urls[i])
             broadcast_event == [sequence_id |-> seq,
                                 event_type |-> "server:add_image",
                                 event_data |-> event_data]
             r == Broadcast(st.queue, broadcast_event)
         IN  InjectLoop(urls, rand, i + 1,
                 [sequence_id |-> seq,
                  canvas |-> MergeEventToCanvas(st.canvas, event_data),
                  queue |-> r.queue,
                  failed |-> st.failed \cup r.failed,
                  raised |-> r.raised,
                  envs |-> Append(st.envs, broadcast_event),
                  ids |-> IF r.raised THEN st.ids ELSE Append(st.ids, img_id),
                  merges |-> st.merges + 1])

InjectResponse(st, urls) ==
    IF st.raised THEN [status |-> 500]
    ELSE [status |-> 200, success |-> TRUE, sequence_id |-> st.sequence_id,
          ids |-> st.ids, urls |-> urls]

InjectImage(request_urls, files) ==
    IF request_urls = <<>> /\ files = {}
    THEN \* HTTPException(400): nothing was touched
         /\ last' = [op |-> "inject",
                     resp |-> [status |-> 400]]
         /\ UNCHANGED <<cid, sequence_id, canvas_data, sse_clients, queue, tasks, pc, sent, broken,
                        assigned, merged, acked, putFailed, regSeq, fullSyncDup>>
    ELSE \E random_file \in (IF request_urls = <<>> THEN files ELSE {"-"}) :
         \E rand \in [1..(IF request_urls = <<>> THEN 1 ELSE Len(request_urls)) -> Rands] :
           LET urls == IF request_urls = <<>> THEN <<UploadUrl(random_file)>> ELSE request_urls
               st == InjectLoop(urls, rand, 1,
                         [sequence_id |-> sequence_id, canvas |-> canvas_data,
                          queue |-> queue, failed |-> {}, raised |-> FALSE,
                          envs |-> <<>>, ids |-> <<>>, merges |-> 0])
           IN  /\ sequence_id + Len(urls) <= MaxSeq
               /\ sequence_id' = st.sequence_id
               /\ canvas_data' = st.canvas
               /\ queue' = st.queue
               /\ putFailed' = putFailed \cup st.failed
               /\ last' = [op |-> "inject", resp |-> InjectResponse(st, urls)]
               /\ assigned' = assigned \o SeqIds(st.envs)
               /\ merged' = merged + st.merges
               /\ acked' = [seq |-> IF st.sequence_id > acked.seq THEN st.sequence_id
                                    ELSE acked.seq,
                            objs |-> AckAll(acked.objs, st.envs, 1)]
               /\ UNCHANGED <<cid, sse_clients, tasks, pc, sent, broken, regSeq, fullSyncDup>>

\* ---- full_sync, get_full_data, reset_data -------------------------------
\* Faulty variant: the given list is added to the canvas instead of replacing it.
FullSyncExtends(canvasJSON) ==
    /\ canvas_data' = canvas_data \o canvasJSON
    /\ last' = [op |-> "full_sync",
                resp |-> [status |-> 200, success |-> TRUE]]
    /\ acked' = NoAck
    /\ fullSyncDup' = ~UniqueIds(canvasJSON)
    /\ UNCHANGED <<cid, sequence_id, sse_clients, queue, tasks, pc, sent, broken, assigned, merged,
                   putFailed, regSeq>>

FullSync(canvasJSON) ==
    /\ canvas_data' = canvasJSON
    /\ last' = [op |-> "full_sync",
                resp |-> [status |-> 200, success |-> TRUE]]
    /\ acked' = NoAck
    /\ fullSyncDup' = ~UniqueIds(canvasJSON)
    /\ UNCHANGED <<cid, sequence_id, sse_clients, queue, tasks, pc, sent, broken, assigned, merged,
                   putFailed, regSeq>>

FullDataResponse == [status |-> 200, canvasJSON |-> canvas_data, sequence_id |-> sequence_id]

GetFullData ==
    /\ last' = [op |-> "full_data",
                resp |-> FullDataResponse]
    /\ UNCHANGED <<cid, sequence_id, canvas_data, sse_clients, queue, tasks, pc, sent, broken,
                   assigned, merged, acked, putFailed, regSeq, fullSyncDup>>

\* Faulty variant: canvas_data is not declared global, the list survives.
ResetDataKeepCanvas ==
    /\ sequence_id' = 0
    /\ last' = [op |-> "reset",
                resp |-> [status |-> 200, success |-> TRUE]]
    /\ assigned' = <<>>
    /\ merged' = 0
    /\ acked' = NoAck
    /\ fullSyncDup' = FALSE
    /\ regSeq' = [c \in Conns |-> 0]
    /\ UNCHANGED <<cid, canvas_data, sse_clients, queue, tasks, pc, sent, broken, putFailed>>

ResetData ==
    /\ sequence_id' = 0
    /\ canvas_data' = <<>>
    /\ last' = [op |-> "reset",
                resp |-> [status |-> 200, success |-> TRUE]]
    /\ assigned' = <<>>
    /\ merged' = 0
    /\ acked' = NoAck
    /\ fullSyncDup' = FALSE
    /\ regSeq' = [c \in Conns |-> 0]
    /\ UNCHANGED <<cid, sse_clients, queue, tasks, pc, sent, broken, putFailed>>

\* ---- sse_endpoint and its event_generator --------------------------------
Connected == [type |-> "connected"]
HeartbeatFrame == [type |-> "heartbeat"]

\* sse_clients[connection_id] = queue: a key already present keeps its place
\* and gets the new queue.
KeyIndex(clients, connection_id) ==
    IF \E i \in 1..Len(clients) : cid[clients[i]] = connection_id
    THEN CHOOSE i \in 1..Len(clients) : cid[clients[i]] = connection_id
    ELSE 0

Store(clients, connection_id, c) ==
    IF KeyIndex(clients, connection_id) >= 1
    THEN [clients EXCEPT ![KeyIndex(clients, connection_id)] = c]
    ELSE Append(clients, c)

\* sse_clients.pop(connection_id, None)
Remove(clients, connection_id) == SelectSeq(clients, LAMBDA x : cid[x] # connection_id)

Beats(c) == Len(SelectSeq(sent[c], LAMBDA f : f = HeartbeatFrame))

\* sse_endpoint: connection_id is drawn, nothing checks that it is not in use;
\* the generator has not started yet.
SseEndpoint(connection_id) ==
    /\ \E c \in Conns :
         /\ pc[c] = "none"
         /\ \A d \in Conns : d < c => pc[d] # "none"
         /\ pc' = [pc EXCEPT ![c] = "created"]
         /\ cid' = [cid EXCEPT ![c] = connection_id]
    /\ UNCHANGED <<sequence_id, canvas_data, sse_clients, queue, tasks, sent, broken, last,
                   assigned, merged, acked, putFailed, regSeq, fullSyncDup>>

\* event_generator up to its first yield: register the queue, emit "connected".
StreamStart(c) ==
    /\ pc[c] = "created"
    /\ pc' = [pc EXCEPT ![c] = "streaming"]
    /\ queue' = [queue EXCEPT ![c] = <<>>]
    /\ sse_clients' = Store(sse_clients, cid[c], c)
    /\ sent' = [sent EXCEPT ![c] = Append(@, Connected)]
    /\ regSeq' = [regSeq EXCEPT ![c] = sequence_id]
    /\ UNCHANGED <<cid, sequence_id, canvas_data, tasks, broken, last, assigned, merged, acked,
                   putFailed, fullSyncDup>>

\* queue.get() returns a message, which is yielded.
StreamForward(c) ==
    /\ pc[c] = "streaming"
    /\ queue[c] # <<>>
    /\ sent' = [sent EXCEPT ![c] = Append(@, Head(queue[c]))]
    /\ queue' = [queue EXCEPT ![c] = Tail(@)]
    /\ UNCHANGED <<cid, sequence_id, canvas_data, sse_clients, tasks, pc, broken, last, assigned,
                   merged, acked, putFailed, regSeq, fullSyncDup>>

\* Faulty variant: the timeout path takes a message off the queue and drops it.
StreamHeartbeatConsumes(c) ==
    /\ pc[c] = "streaming"
    /\ Beats(c) < MaxBeats
    /\ sent' = [sent EXCEPT ![c] = Append(@, HeartbeatFrame)]
    /\ queue' = [queue EXCEPT ![c] = IF @ = <<>> THEN @ ELSE Tail(@)]
    /\ UNCHANGED <<cid, sequence_id, canvas_data, sse_clients, tasks, pc, broken, last,
                   assigned, merged, acked, putFailed, regSeq, fullSyncDup>>

\* wait_for times out: a heartbeat is yielded.  The timer is the clock's, so
\* it may fire in the very turn of the loop in which a message is put.
StreamHeartbeat(c) ==
    /\ pc[c] = "streaming"
    /\ Beats(c) < MaxBeats
    /\ sent' = [sent EXCEPT ![c] = Append(@, HeartbeatFrame)]
    /\ UNCHANGED <<cid, sequence_id, canvas_data, sse_clients, queue, tasks, pc, broken, last,
                   assigned, merged, acked, putFailed, regSeq, fullSyncDup>>

\* The stream is cancelled or closed at a suspension point: the finally
\* clause pops the connection; the queue goes with the generator.
StreamClose(c) ==
    /\ pc[c] = "streaming"
    /\ pc' = [pc EXCEPT ![c] = "closed"]
    /\ sse_clients' = Remove(sse_clients, cid[c])
    /\ queue' = [queue EXCEPT ![c] = <<>>]
    /\ broken' = broken \ {c}
    /\ UNCHANGED <<cid, sequence_id, canvas_data, tasks, sent, last, assigned, merged, acked,
                   putFailed, regSeq, fullSyncDup>>

\* The response is dropped before the generator is first resumed.
StreamAbandon(c) ==
    /\ pc[c] = "created"
    /\ pc' = [pc EXCEPT ![c] = "closed"]
    /\ UNCHANGED <<cid, sequence_id, canvas_data, sse_clients, queue, tasks, sent, broken, last,
                   assigned, merged, acked, putFailed, regSeq, fullSyncDup>>

\* Environment: from now on queue.put raises for stream c.
QueueBreaks(c) ==
    /\ pc[c] = "streaming"
    /\ c \notin broken
    /\ broken' = broken \cup {c}
    /\ UNCHANGED <<cid, sequence_id, canvas_data, sse_clients, queue, tasks, pc, sent, last,
                   assigned, merged, acked, putFailed, regSeq, fullSyncDup>>

\* ---- the server -----------------------------------------------------------
\* Every handler and every stream step, on every input.
Next ==
    \/ \E events \in SyncPushRequest : PushSyncEvent(events)
    \/ RunBroadcastAll
    \/ \E urls \in InjectImageRequest : \E files \in UploadDirs : InjectImage(urls, files)
    \/ \E canvasJSON \in FullSyncRequest : FullSync(canvasJSON)
    \/ GetFullData
    \/ ResetData
    \/ \E connection_id \in ConnIds : SseEndpoint(connection_id)
    \/ \E c \in Conns : StreamStart(c)
    \/ \E c \in Conns : StreamForward(c)
    \/ \E c \in Conns : StreamHeartbeat(c)
    \/ \E c \in Conns : StreamClose(c)
    \/ \E c \in Conns : StreamAbandon(c)
    \/ \E c \in Conns : QueueBreaks(c)

Spec == Init /\ [][Next]_vars

\* Streams whose connection ids are pairwise distinct: the id drawn is the
\* lowest one not drawn before.
Opened == {c \in Conns : pc[c] # "none"}

UsedIds == {cid[c] : c \in Opened}

SseEndpointFresh ==
    \E connection_id \in ConnIds :
        /\ connection_id \notin UsedIds
        /\ \A j \in ConnIds : j < connection_id => j \in UsedIds
        /\ SseEndpoint(connection_id)

\* The request handlers on the canvas and the counter.  No stream is opened,
\* so a broadcast_all task has no queue to fill; it is run before the next
\* handler.
NextState ==
    \/ \E events \in SyncPushRequest : tasks = <<>> /\ PushSyncEvent(events)
    \/ RunBroadcastAll
    \/ \E urls \in InjectImageRequest : \E files \in UploadDirs :
         tasks = <<>> /\ InjectImage(urls, files)
    \/ \E canvasJSON \in FullSyncRequest : tasks = <<>> /\ FullSync(canvasJSON)
    \/ tasks = <<>> /\ GetFullData
    \/ tasks = <<>> /\ ResetData

SpecState == Init /\ [][NextState]_vars

\* Ingest and fan-out to the queues of the registered streams.
NextFanout ==
    \/ \E events \in FewPushRequest :
         sequence_id + Len(events) <= FanSeq /\ PushSyncEvent(events)
    \/ RunBroadcastAll
    \/ \E urls \in InjectImageRequest \ {<<>>} :
         sequence_id + Len(urls) <= FanSeq /\ InjectImage(urls, {})
    \/ SseEndpointFresh
    \/ \E c \in Conns : StreamStart(c)
    \/ \E c \in Conns : QueueBreaks(c)

SpecFanout == Init /\ [][NextFanout]_vars

\* Reset and snapshot next to ingest, with few registered streams.
Backlog(c) == Len(SelectSeq(sent[c], LAMBDA f : f.type = "sync_event")) + Len(queue[c])

NextReset ==
    \/ \E events \in FewPushRequest :
         sequence_id + Len(events) <= ResetSeq /\ PushSyncEvent(events)
    \/ RunBroadcastAll
    \/ \E urls \in InjectImageRequest \ {<<>>} :
         sequence_id + Len(urls) <= ResetSeq /\ InjectImage(urls, {})
    \/ GetFullData
    \/ (\A c \in Conns : Backlog(c) <= MaxBacklog) /\ ResetData
    \/ Cardinality(Opened) < ResetConns /\ SseEndpointFresh
    \/ \E c \in Conns : StreamStart(c)

SpecReset == Init /\ [][NextReset]_vars

\* The life of a subscriber stream next to ingest.
NextStream ==
    \/ \E events \in FewPushRequest :
         sequence_id + Len(events) <= ResetSeq /\ PushSyncEvent(events)
    \/ RunBroadcastAll
    \/ \E urls \in InjectImageRequest \ {<<>>} :
         sequence_id + Len(urls) <= FanSeq /\ InjectImage(urls, {})
    \/ Cardinality(Opened) < ResetConns /\ SseEndpointFresh
    \/ \E c \in Conns : StreamStart(c)
    \/ \E c \in Conns : StreamForward(c)
    \/ \E c \in Conns : StreamHeartbeat(c)
    \/ \E c \in Conns : StreamClose(c)
    \/ \E c \in Conns : StreamAbandon(c)

SpecStream == Init /\ [][NextStream]_vars

\* The registry: streams open, register and close with whatever connection
\* ids are drawn, next to ingest.
NextRegistry ==
    \/ \E events \in FewPushRequest :
         sequence_id + Len(events) <= ResetSeq /\ PushSyncEvent(events)
    \/ RunBroadcastAll
    \/ \E urls \in InjectImageRequest \ {<<>>} :
         sequence_id + Len(urls) <= ResetSeq /\ InjectImage(urls, {})
    \/ \E connection_id \in ConnIds : SseEndpoint(connection_id)
    \/ \E c \in Conns : StreamStart(c)
    \/ \E c \in Conns : StreamClose(c)
    \/ \E c \in Conns : StreamAbandon(c)

SpecRegistry == Init /\ [][NextRegistry]_vars

\* Full-sync next to ingest and registered streams.
NextSync ==
    \/ \E events \in FewPushRequest :
         sequence_id + Len(events) <= ResetSeq /\ PushSyncEvent(events)
    \/ RunBroadcastAll
    \/ \E canvasJSON \in FullSyncRequest : FullSync(canvasJSON)
    \/ Cardinality(Opened) < ResetConns /\ SseEndpointFresh
    \/ \E c \in Conns : StreamStart(c)

SpecSync == Init /\ [][NextSync]_vars

\* Push requests of any items and their deferred fan-out to registered streams.
NextPush ==
    \/ \E events \in SyncPushRequest :
         sequence_id + Len(events) <= FanSeq /\ PushSyncEvent(events)
    \/ RunBroadcastAll
    \/ Cardinality(Opened) < ResetConns /\ SseEndpointFresh
    \/ \E c \in Conns : StreamStart(c)

SpecPush == Init /\ [][NextPush]_vars

\* Ingest, snapshot and streams with no reset; the loop runs every task it was
\* given.
NextBoot ==
    \/ \E events \in FewPushRequest :
         sequence_id + Len(events) <= FanSeq /\ PushSyncEvent(events)
    \/ RunBroadcastAll
    \/ \E urls \in InjectImageRequest \ {<<>>} :
         sequence_id + Len(urls) <= FanSeq /\ InjectImage(urls, {})
    \/ GetFullData
    \/ Cardinality(Opened) < ResetConns /\ SseEndpointFresh
    \/ \E c \in Conns : StreamStart(c)
    \/ \E c \in Conns : StreamClose(c)

SpecBoot == Init /\ [][NextBoot]_vars /\ WF_vars(RunBroadcastAll)

\* ---- what is checked -------------------------------------------------------
Registered == {sse_clients[i] : i \in 1..Len(sse_clients)}

IsEvent(frame) == frame.type = "sync_event"

\* The envelopes ever enqueued to stream c: those forwarded, then those queued.
History(c) == SelectSeq(sent[c], IsEvent) \o queue[c]

Messages(envs) == [i \in 1..Len(envs) |-> Message(envs[i])]

LastTask(ts) == ts[Len(ts)]

HasId(event_item) == event_item.event_data.id # NoId

RECURSIVE MergeItems(_, _, _)
MergeItems(canvas, events, i) ==
    IF i > Len(events) THEN canvas
    ELSE MergeItems(MergeEventToCanvas(canvas, events[i].event_data), events, i + 1)

PushStep(events) == Len(tasks') = Len(tasks) + 1 /\ PushSyncEvent(events)

InjectStep(urls) == sequence_id' = sequence_id + Len(urls) /\ InjectImage(urls, {})

\* C1: with no reset in between, a stream receives the envelopes of the
\* requests issued after it registered in increasing order of their
\* sequence ids.
DeliveryOrderIsSequenceOrder ==
    \A c \in Conns : \A i, j \in 1..Len(History(c)) :
        (/\ i < j
         /\ History(c)[i].data.sequence_id > regSeq[c]
         /\ History(c)[j].data.sequence_id > regSeq[c])
        => History(c)[i].data.sequence_id < History(c)[j].data.sequence_id

\* C2: the ids handed out since the last reset are exactly 1..sequence_id, each
\* once and in increasing order; a push request of n items at counter k puts
\* k+1..k+n on its items in submission order, and so does an inject request
\* on its images.
SequenceMonotonic ==
    [][/\ assigned' = [i \in 1..sequence_id' |-> i]
       /\ \A events \in SyncPushRequest : PushStep(events) =>
            /\ Len(LastTask(tasks')) = Len(events)
            /\ \A i \in 1..Len(events) :
                 /\ LastTask(tasks')[i].sequence_id = sequence_id + i
                 /\ LastTask(tasks')[i].event_data = events[i].event_data
       /\ \A urls \in InjectImageRequest \ {<<>>} : InjectStep(urls) =>
            /\ Len(last'.resp.ids) = Len(urls)
            /\ \A i \in 1..Len(urls) :
                 last'.resp.ids[i] \in {ImgId(sequence_id + i, r) : r \in Rands}
      ]_vars

SequenceMonotonicWitness ==
    /\ sequence_id = 3
    /\ assigned = <<1, 2, 3>>
    /\ last.op = "push"
    /\ tasks # <<>> /\ Len(LastTask(tasks)) = 1
    /\ \E i \in 1..Len(canvas_data) : canvas_data[i].id = ImgId(2, 0)

\* C3 as stated: canvas_data never holds two objects with the same id.
IdentityInvariant == UniqueIds(canvas_data)

\* C3 amended: canvas_data holds at most one object per id unless the last
\* full-sync since the last reset installed a list that repeats an id.
IdentityUnlessFullSyncRepeats == UniqueIds(canvas_data) \/ fullSyncDup

IdentityWitness ==
    /\ ~fullSyncDup
    /\ last.op = "push"
    /\ merged = 3
    /\ acked.seq = 3
    /\ Len(canvas_data) = 2
    /\ canvas_data[1] = Obj("a", "p2")

\* C4: the response of a push request of n items handled at counter k carries
\* sequence id k+n, the id of the request's last envelope.
PushReturnsHighestId ==
    [][\A events \in SyncPushRequest : PushStep(events) =>
          /\ last'.op = "push"
          /\ last'.resp.status = 200
          /\ last'.resp.sequence_id = sequence_id + Len(events)
          /\ \A i \in 1..Len(LastTask(tasks')) :
               LastTask(tasks')[i].sequence_id <= last'.resp.sequence_id
          /\ events # <<>> =>
               last'.resp.sequence_id = LastTask(tasks')[Len(events)].sequence_id
      ]_vars

PushReturnsHighestIdWitness ==
    /\ last.op = "push"
    /\ last.resp.sequence_id = 3
    /\ tasks # <<>> /\ SeqIds(LastTask(tasks)) = <<2, 3>>

\* C5: when a push has answered, its items are in canvas_data; and a snapshot
\* taken with no full-sync or reset since carries a sequence id not below
\* the acknowledged one and, for every acknowledged id, the object
\* acknowledged last.
AckedObjectsIn(canvas) ==
    \A id \in DOMAIN acked.objs : \E i \in 1..Len(canvas) : canvas[i] = acked.objs[id]

AppliedBeforeAcknowledged ==
    /\ last.op = "push" =>
         /\ sequence_id >= last.resp.sequence_id
         /\ AckedObjectsIn(canvas_data)
    /\ last.op = "full_data" =>
         /\ last.resp.sequence_id >= acked.seq
         /\ AckedObjectsIn(last.resp.canvasJSON)

AppliedBeforeAcknowledgedWitness ==
    /\ last.op = "full_data"
    /\ acked.seq = 2
    /\ DOMAIN acked.objs = {"a"}
    /\ acked.objs["a"] = Obj("a", "p2")
    /\ Len(last.resp.canvasJSON) = 2

\* C6: in every state a handler can run in, as many merges have been made as
\* ids were handed out, and the snapshot is the canvas and the counter of
\* that one state.
SnapshotConsistent ==
    /\ merged = sequence_id
    /\ last.op = "full_data" =>
         last.resp = [status |-> 200, canvasJSON |-> canvas_data, sequence_id |-> merged]

SnapshotConsistentWitness ==
    /\ last.op = "full_data"
    /\ last.resp.sequence_id = 2
    /\ Len(last.resp.canvasJSON) = 2
    /\ last.resp.canvasJSON[2].id = ImgId(2, 0)

\* The messages an inject request of these urls at counter k publishes.
InjectMessages(k, urls, rand) ==
    [i \in 1..Len(urls) |->
        Message([sequence_id |-> k + i,
                 event_type |-> "server:add_image",
                 event_data |-> ImageData(ImgId(k + i, rand[i]), urls[i])])]

\* C7: whichever registered streams fail to take a message, every broadcast
\* appends each of its messages, in order, to the queue of every other
\* registered stream; the task broadcasts all its envelopes and the inject
\* request answers 200.
SubscriberFailureIsolated ==
    [][/\ RunBroadcastAll =>
            \A c \in Registered \ broken :
                queue'[c] = queue[c] \o Messages(Head(tasks))
       /\ \A urls \in InjectImageRequest \ {<<>>} : InjectStep(urls) =>
            /\ last'.resp.status = 200
            /\ \E rand \in [1..Len(urls) -> Rands] :
                 \A c \in Registered \ broken :
                     queue'[c] = queue[c] \o InjectMessages(sequence_id, urls, rand)
      ]_vars

SubscriberFailureIsolatedWitness ==
    /\ sse_clients = <<1, 2>>
    /\ broken = {1}
    /\ putFailed = {1}
    /\ History(1) = <<>>
    /\ SeqIds([i \in 1..Len(History(2)) |-> History(2)[i].data]) = <<1, 2>>
    /\ last.op = "inject" /\ last.resp.status = 200

\* C8: a stream to which an enqueue has failed is not in sse_clients.
FailedSubscriberUnregistered == \A c \in putFailed : c \notin Registered

\* C9: a push request answers 200 and leaves canvas_data as the merge of its
\* items that carry an id, in order; items without an id change nothing.
IdlessItemIsNoOp ==
    [][\A events \in SyncPushRequest : PushStep(events) =>
          /\ last'.resp.status = 200
          /\ canvas_data' = MergeItems(canvas_data, SelectSeq(events, HasId), 1)
          /\ (\A i \in 1..Len(events) : ~HasId(events[i])) => canvas_data' = canvas_data
      ]_vars

IdlessItemIsNoOpWitness ==
    /\ last.op = "push"
    /\ tasks # <<>>
    /\ Len(LastTask(tasks)) = 2
    /\ LastTask(tasks)[1].event_data.id = NoId
    /\ LastTask(tasks)[2].event_data = Obj("a", "p2")
    /\ LastTask(tasks)[2].sequence_id = 3
    /\ canvas_data = <<Obj("a", "p2")>>

\* C10: a reset empties canvas_data and zeroes the counter and touches no
\* queue, no stream, no pending task and not the registry; right after a
\* reset a snapshot is empty with sequence id 0 and the first item accepted
\* gets sequence id 1.
ResetWipesStateAndCounter ==
    [][/\ ResetData =>
            /\ canvas_data' = <<>>
            /\ sequence_id' = 0
            /\ <<sse_clients, queue, sent, pc, tasks>>' = <<sse_clients, queue, sent, pc, tasks>>
       /\ (last.op = "reset" /\ GetFullData) =>
            last'.resp = [status |-> 200, canvasJSON |-> <<>>, sequence_id |-> 0]
       /\ \A events \in FewPushRequest \ {<<>>} :
            (last.op = "reset" /\ PushStep(events)) =>
                LastTask(tasks')[1].sequence_id = 1
       /\ \A urls \in InjectImageRequest \ {<<>>} :
            (last.op = "reset" /\ InjectStep(urls)) =>
                last'.resp.ids[1] \in {ImgId(1, r) : r \in Rands}
      ]_vars

ResetWipesStateAndCounterWitness ==
    /\ sequence_id = 1
    /\ last.op = "push"
    /\ sse_clients = <<1>>
    /\ SeqIds([i \in 1..Len(History(1)) |-> History(1)[i].data]) = <<1>>
    /\ tasks # <<>> /\ SeqIds(LastTask(tasks)) = <<1>>
    /\ canvas_data = <<Obj("a", "p1")>>

\* C11: a full-sync installs exactly the given list, in its order, and leaves
\* the counter, the registry, every queue and the pending tasks as they were.
FullSyncReplacesOnly ==
    [][\A canvasJSON \in FullSyncRequest : FullSync(canvasJSON) =>
          /\ canvas_data' = canvasJSON
          /\ sequence_id' = sequence_id
          /\ sse_clients' = sse_clients
          /\ queue' = queue
          /\ tasks' = tasks
          /\ last'.resp = [status |-> 200, success |-> TRUE]
      ]_vars

FullSyncReplacesOnlyWitness ==
    /\ last.op = "full_sync"
    /\ canvas_data = <<Obj(NoId, "p1"), Obj("a", "p2")>>
    /\ sequence_id = 1
    /\ sse_clients = <<1>>
    /\ SeqIds([i \in 1..Len(queue[1]) |-> queue[1][i].data]) = <<1>>

\* Push requests of one item that carries an id.
SinglePush == {events \in SyncPushRequest : Len(events) = 1 /\ HasId(events[1])}

HoldsId(canvas, id) == \E i \in 1..Len(canvas) : canvas[i].id = id

\* C12: merging an object whose id is present puts it at the place of an
\* object of that id and leaves every other place as it was; merging an
\* object whose id is absent puts it last and leaves all places before it as
\* they were.
PositionStable ==
    [][/\ \A events \in SinglePush : PushStep(events) =>
            LET obj == events[1].event_data
            IN  IF HoldsId(canvas_data, obj.id)
                THEN /\ Len(canvas_data') = Len(canvas_data)
                     /\ \E k \in 1..Len(canvas_data) :
                          /\ canvas_data[k].id = obj.id
                          /\ canvas_data'[k] = obj
                          /\ \A i \in 1..Len(canvas_data) :
                               i # k => canvas_data'[i] = canvas_data[i]
                ELSE /\ Len(canvas_data') = Len(canvas_data) + 1
                     /\ canvas_data'[Len(canvas_data')] = obj
                     /\ \A i \in 1..Len(canvas_data) : canvas_data'[i] = canvas_data[i]
       /\ \A urls \in InjectImageRequest : (Len(urls) = 1 /\ InjectStep(urls)) =>
            /\ Len(canvas_data') = Len(canvas_data) + 1
            /\ canvas_data'[Len(canvas_data')].body = urls[1]
            /\ \A i \in 1..Len(canvas_data) : canvas_data'[i] = canvas_data[i]
      ]_vars

PositionStableWitness ==
    /\ last.op = "push"
    /\ assigned = <<1, 2, 3>>
    /\ tasks # <<>>
    /\ SeqIds(LastTask(tasks)) = <<3>>
    /\ LastTask(tasks)[1].event_data = Obj("a", "p2")
    /\ Len(canvas_data) = 2
    /\ canvas_data[1] = Obj("a", "p2")
    /\ canvas_data[2].id = ImgId(2, 0)

\* Push requests that carry the same item twice.
DoublePush ==
    {events \in SyncPushRequest : Len(events) = 2 /\ HasId(events[1]) /\ events[1] = events[2]}

Count(canvas, id) == Len(SelectSeq(canvas, LAMBDA item : item.id = id))

\* C13 as stated: merging the same object twice in a row gives what merging it
\* once gives, which holds exactly one object of that id, the merged one; and
\* the canvas gets longer only when the merged id was absent.
MergeIdempotent ==
    [][/\ \A events \in DoublePush : PushStep(events) =>
            LET obj == events[1].event_data
            IN  /\ canvas_data' = MergeEventToCanvas(canvas_data, obj)
                /\ Count(canvas_data', obj.id) = 1
                /\ \E i \in 1..Len(canvas_data') : canvas_data'[i] = obj
       /\ \A events \in SinglePush : PushStep(events) =>
            /\ Len(canvas_data') >= Len(canvas_data)
            /\ Len(canvas_data') > Len(canvas_data) =>
                  ~HoldsId(canvas_data, events[1].event_data.id)
      ]_vars

\* C13 amended: merging the same object twice in a row gives what merging it
\* once gives; the canvas then holds the merged object, and as many objects
\* of its id as before, or one if there was none, so exactly one unless the
\* id was already repeated; the canvas gets longer only when the merged id
\* was absent.
MergeIdempotentUnlessRepeated ==
    [][/\ \A events \in DoublePush : PushStep(events) =>
            LET obj == events[1].event_data
                before == Count(canvas_data, obj.id)
            IN  /\ canvas_data' = MergeEventToCanvas(canvas_data, obj)
                /\ Count(canvas_data', obj.id) = IF before = 0 THEN 1 ELSE before
                /\ \E i \in 1..Len(canvas_data') : canvas_data'[i] = obj
       /\ \A events \in SinglePush : PushStep(events) =>
            /\ Len(canvas_data') >= Len(canvas_data)
            /\ Len(canvas_data') > Len(canvas_data) =>
                  ~HoldsId(canvas_data, events[1].event_data.id)
      ]_vars

MergeIdempotentWitness ==
    /\ last.op = "push"
    /\ assigned = <<1, 2, 3>>
    /\ tasks # <<>>
    /\ SeqIds(LastTask(tasks)) = <<2, 3>>
    /\ LastTask(tasks)[1].event_data = Obj("a", "p2")
    /\ LastTask(tasks)[2].event_data = Obj("a", "p2")
    /\ ~fullSyncDup
    /\ canvas_data = <<Obj("a", "p2")>>

IsPrefix(s, t) == Len(s) <= Len(t) /\ SubSeq(t, 1, Len(s)) = s

Forwarded(c) == SelectSeq(sent[c], IsEvent)

\* C14: the first frame of a stream is "connected" and the stream is in the
\* registry when it is emitted; while the stream is open, what it has
\* forwarded followed by what is queued only grows at the end, a forwarded
\* envelope is the head of the queue and leaves it, and a heartbeat changes
\* neither the queue nor what has been forwarded.
StreamForwardsInOrder ==
    [][\A c \in Conns :
          /\ (sent[c] = <<>> /\ sent'[c] # <<>>) =>
                /\ sent'[c] = <<Connected>>
                /\ c \in {sse_clients'[i] : i \in 1..Len(sse_clients')}
          /\ (pc[c] = "streaming" /\ pc'[c] = "streaming") =>
                /\ IsPrefix(History(c), SelectSeq(sent'[c], IsEvent) \o queue'[c])
                /\ IsPrefix(sent[c], sent'[c])
                /\ Len(sent'[c]) <= Len(sent[c]) + 1
          /\ (Len(sent'[c]) = Len(sent[c]) + 1 /\ IsEvent(sent'[c][Len(sent'[c])])) =>
                /\ queue[c] # <<>>
                /\ sent'[c][Len(sent'[c])] = Head(queue[c])
                /\ queue'[c] = Tail(queue[c])
          /\ StreamHeartbeat(c) =>
                /\ queue' = queue
                /\ SelectSeq(sent'[c], IsEvent) = Forwarded(c)
                /\ sent'[c] = Append(sent[c], HeartbeatFrame)
      ]_vars

StreamForwardsInOrderWitness ==
    /\ pc[1] = "streaming"
    /\ Len(sent[1]) = 4
    /\ sent[1][1] = Connected
    /\ sent[1][3] = HeartbeatFrame
    /\ SeqIds([i \in 1..Len(Forwarded(1)) |-> Forwarded(1)[i].data]) = <<1, 2>>
    /\ queue[1] = <<>>

\* C15: the registry holds only streams that are open, a stream that closes
\* or is dropped is not in it afterwards, and a stream that closes takes no
\* other open stream out of it.
NoStaleSubscribers ==
    [][/\ \A c \in {sse_clients'[i] : i \in 1..Len(sse_clients')} : pc'[c] = "streaming"
       /\ \A c \in Conns :
            (pc[c] # "closed" /\ pc'[c] = "closed") =>
                /\ c \notin {sse_clients'[i] : i \in 1..Len(sse_clients')}
                /\ \A d \in Registered \ {c} :
                     d \in {sse_clients'[i] : i \in 1..Len(sse_clients')}
      ]_vars

\* C16: a broadcast appends its message once to the queue of every stream in
\* the registry and leaves every other queue as it is; a stream enters the
\* registry with an empty queue, and the queue of a stream outside the
\* registry gets nothing.
FanOutToRegisteredOnly ==
    [][/\ RunBroadcastAll =>
            \A c \in Conns :
                queue'[c] = IF c \in Registered
                            THEN queue[c] \o Messages(Head(tasks))
                            ELSE queue[c]
       /\ \A urls \in InjectImageRequest \ {<<>>} : InjectStep(urls) =>
            \E rand \in [1..Len(urls) -> Rands] :
                \A c \in Conns :
                    queue'[c] = IF c \in Registered
                                THEN queue[c] \o InjectMessages(sequence_id, urls, rand)
                                ELSE queue[c]
       /\ \A c \in Conns \ Registered :
            /\ queue'[c] = queue[c] \/ queue'[c] = <<>>
            /\ c \in {sse_clients'[i] : i \in 1..Len(sse_clients')} => queue'[c] = <<>>
      ]_vars

FanOutToRegisteredOnlyWitness ==
    /\ sse_clients = <<1, 2>>
    /\ sequence_id = 1
    /\ tasks = <<>>
    /\ last.op = "push"
    /\ SeqIds([i \in 1..Len(queue[1]) |-> queue[1][i].data]) = <<1>>
    /\ queue[2] = <<>>

\* What a step has appended to the queue of stream c.
Appended(c) == SubSeq(queue'[c], Len(queue[c]) + 1, Len(queue'[c]))

\* C17: the task of a push request holds one envelope per item, in list
\* order, with consecutive sequence ids and the item's event_type and
\* event_data; when the task runs, every registered stream gets exactly these
\* envelopes appended to its queue in that order.
RequestOrderKept ==
    [][/\ \A events \in SyncPushRequest : PushStep(events) =>
            /\ Len(LastTask(tasks')) = Len(events)
            /\ \A i \in 1..Len(events) :
                 /\ LastTask(tasks')[i].event_type = events[i].event_type
                 /\ LastTask(tasks')[i].event_data = events[i].event_data
                 /\ i > 1 => LastTask(tasks')[i].sequence_id
                                = LastTask(tasks')[i - 1].sequence_id + 1
       /\ RunBroadcastAll =>
            \A c \in Registered :
                /\ IsPrefix(queue[c], queue'[c])
                /\ Len(Appended(c)) = Len(Head(tasks))
                /\ \A i \in 1..Len(Appended(c)) :
                     /\ Appended(c)[i].data = Head(tasks)[i]
                     /\ i > 1 => Appended(c)[i].data.sequence_id
                                    > Appended(c)[i - 1].data.sequence_id
      ]_vars

RequestOrderKeptWitness ==
    /\ sse_clients = <<1>>
    /\ tasks = <<>>
    /\ last.op = "push" /\ last.resp.sequence_id = 2
    /\ Len(queue[1]) = 2
    /\ queue[1][1].data = [sequence_id |-> 1, event_type |-> "client:change",
                           event_data |-> Obj("a", "p2")]
    /\ queue[1][2].data = [sequence_id |-> 2, event_type |-> "client:change",
                           event_data |-> Obj("a", "p1")]
    /\ canvas_data = <<Obj("a", "p1")>>

\* C19: a push request of n items moves the counter by n and leaves a task of
\* n envelopes, one per item, with or without id; when the task runs every
\* registered stream gets n messages, those of the items without id
\* included, while the canvas took only the items with an id.
EveryItemSequencedAndPublished ==
    [][/\ \A events \in SyncPushRequest : PushStep(events) =>
            /\ sequence_id' = sequence_id + Len(events)
            /\ Len(LastTask(tasks')) = Len(events)
            /\ \A i \in 1..Len(events) :
                 /\ LastTask(tasks')[i].sequence_id = sequence_id + i
                 /\ ~HasId(events[i]) => LastTask(tasks')[i].event_data.id = NoId
            /\ \A i \in 1..Len(canvas_data') : canvas_data'[i].id # NoId
       /\ RunBroadcastAll =>
            \A c \in Registered :
                /\ Len(queue'[c]) = Len(queue[c]) + Len(Head(tasks))
                /\ \A i \in 1..Len(Head(tasks)) :
                     queue'[c][Len(queue[c]) + i] = Message(Head(tasks)[i])
      ]_vars

EveryItemSequencedAndPublishedWitness ==
    /\ sse_clients = <<1>>
    /\ tasks = <<>>
    /\ sequence_id = 2
    /\ Len(queue[1]) = 2
    /\ queue[1][1].data.event_data = Obj(NoId, "p1")
    /\ queue[1][2].data.event_data = Obj("a", "p1")
    /\ queue[1][2].data.sequence_id = 2
    /\ canvas_data = <<Obj("a", "p1")>>

\* C20: whatever is appended to a queue carries a sequence id that is not
\* above the counter at that moment, so nothing accepted before the last
\* reset is enqueued after it.
NoStaleEnvelopeAfterReset ==
    [][\A c \in Conns : \A i \in 1..Len(Appended(c)) :
          Appended(c)[i].data.sequence_id <= sequence_id'
      ]_vars

Got(c, n) == \E i \in 1..Len(History(c)) : History(c)[i].data.sequence_id = n

SnapshotTaken(c, S) ==
    /\ c \in Registered
    /\ last.op = "full_data"
    /\ last.resp.sequence_id = S

\* C18: once a snapshot with sequence id S has been taken while stream c was
\* registered, then, with no reset, whenever a mutation has got a sequence id
\* n above S, its envelope is eventually in the queue of c, unless c closes.
BootstrapHasNoGap ==
    \A c \in Conns : \A S \in 0..FanSeq : \A n \in 1..FanSeq :
        n > S =>
            [](SnapshotTaken(c, S) =>
                 [](sequence_id >= n => <>(Got(c, n) \/ pc[c] = "closed")))

BootstrapHasNoGapWitness ==
    /\ sse_clients = <<1>>
    /\ regSeq[1] = 1
    /\ sequence_id = 2
    /\ last.op = "push"
    /\ tasks = <<>>
    /\ SeqIds([i \in 1..Len(queue[1]) |-> queue[1][i].data]) = <<2>>

====
